---- MODULE Spec2Model ----
(***************************************************************************)
(* Model of src/equations.py: the classes operation, equation and variable *)
(* of the graphics calculator.  An equation object is constructed, fed a   *)
(* text one character at a time by parse (one action per iteration of the  *)
(* loop of parse), and evaluated by calculate.                             *)
(*                                                                         *)
(* Numbers.  Python ints and floats are modelled by exact rationals n/d    *)
(* with a flag f telling a float from an int.  A number whose numerator or *)
(* denominator leaves the range -Limit..Limit, and a power with a          *)
(* non-integral exponent (irrational or complex in Python), is the value   *)
(* Opaque: a number the model does not track.  None is the value NoneVal.  *)
(*                                                                         *)
(* Strings are sequences of one-character strings; the local `number` of   *)
(* parse, which is None or a non-empty string, is the empty sequence when  *)
(* it is None (parse never makes it the empty string).                     *)
(***************************************************************************)
EXTENDS Integers, Sequences, FiniteSets, TLC

\* ------------------------------------------------------------- bounds ----
\* Longest text over Chars that parse is fed.
MaxLen == 3
\* Longest text over CoreChars (two digits and four operators).
MaxCoreLen == 5
\* Largest numerator and denominator that arithmetic tracks.
Limit == 10000

\* ------------------------------------------------------------ numbers ----
Abs(i) == IF i < 0 THEN -i ELSE i

RECURSIVE GCD(_, _)
GCD(a, b) == IF b = 0 THEN a ELSE GCD(b, a % b)

Opaque == [k |-> "opaque", n |-> 0, d |-> 1, f |-> TRUE]
NoneVal == [k |-> "None", n |-> 0, d |-> 1, f |-> FALSE]

\* The number n/d (d > 0) in lowest terms, float when f.
Num(n, d, f) ==
    LET g == GCD(Abs(n), d)
        nn == n \div g
        dd == d \div g
    IN  IF Abs(nn) > Limit \/ dd > Limit THEN Opaque
        ELSE [k |-> "num", n |-> nn, d |-> dd, f |-> f]

IntVal(i) == Num(i, 1, FALSE)

IsNum(v) == v.k = "num"
IsZero(v) == v.k = "num" /\ v.n = 0

\* The outcome of a call: what it raised ("" when it returned) and the value.
Ret(v) == [raised |-> "", val |-> v]
Raise(e) == [raised |-> e, val |-> NoneVal]

\* b ** e for an integer e >= 0, by repeated multiplication.
RECURSIVE PowNat(_, _, _)
PowNat(b, e, acc) ==
    IF e = 0 \/ acc.k # "num" THEN acc
    ELSE PowNat(b, e - 1, Num(acc.n * b.n, acc.d * b.d, acc.f))

\* Python's left ** right.
Power(left, right) ==
    LET fl == left.f \/ right.f
    IN  IF right.d # 1
        THEN IF IsZero(left)
             THEN IF right.n < 0 THEN Raise("ZeroDivisionError")
                  ELSE Ret(Num(0, 1, TRUE))
             ELSE IF left.n = left.d THEN Ret(Num(1, 1, TRUE))
             ELSE Ret(Opaque)
        ELSE IF IsZero(left)
             THEN IF right.n < 0 THEN Raise("ZeroDivisionError")
                  ELSE Ret(Num(IF right.n = 0 THEN 1 ELSE 0, 1, fl))
        ELSE IF Abs(left.n) = 1 /\ left.d = 1
             THEN Ret(Num(IF left.n = 1 \/ right.n % 2 = 0 THEN 1 ELSE -1, 1,
                          fl \/ right.n < 0))
        ELSE IF right.n >= 0
             THEN Ret(PowNat(left, right.n, Num(1, 1, fl)))
        ELSE LET inv == IF left.n > 0 THEN Num(left.d, left.n, TRUE)
                        ELSE Num(-left.d, -left.n, TRUE)
             IN  Ret(PowNat(inv, -right.n, Num(1, 1, TRUE)))

\* allowedOperations with addition ahead of multiplication.
allowedOperations_add_first == <<"+", "*", "/", "^", "-">>

\* The module-level list allowedOperations.
allowedOperations == <<"^", "*", "/", "+", "-">>

Range(s) == {s[i] : i \in 1..Len(s)}

\* operation.__init__: TRUE when it raises ValueError.  The parameter
\* `allowed` defaults to allowedOperations at every call site of the module.
operation_init_raises(symbol, allowed) == symbol \notin Range(allowed)

\* operation.extendCalculate of the class operation: `pass`, returns None.
extendCalculate(left, right) == Ret(NoneVal)

\* operation.calculate: the operator `symbol` applied to (left, right).
operation_calculate(symbol, left, right) ==
    IF symbol \notin Range(allowedOperations) THEN extendCalculate(left, right)
    ELSE IF left.k = "None" \/ right.k = "None" THEN Raise("TypeError")
    ELSE IF symbol = "/" /\ IsZero(right) THEN Raise("ZeroDivisionError")
    ELSE IF left.k = "opaque" \/ right.k = "opaque" THEN Ret(Opaque)
    ELSE IF symbol = "+"
         THEN Ret(Num(left.n * right.d + right.n * left.d, left.d * right.d,
                      left.f \/ right.f))
    ELSE IF symbol = "-"
         THEN Ret(Num(left.n * right.d - right.n * left.d, left.d * right.d,
                      left.f \/ right.f))
    ELSE IF symbol = "/"
         THEN Ret(IF right.n > 0 THEN Num(left.n * right.d, left.d * right.n, TRUE)
                  ELSE Num(-(left.n * right.d), -(left.d * right.n), TRUE))
    ELSE IF symbol = "*"
         THEN Ret(Num(left.n * right.n, left.d * right.d, left.f \/ right.f))
    ELSE Power(left, right)

\* ------------------------------------------------------------ symbols ----
\* The elements of equation.symbols: an int or a float (kind "int"/"float",
\* value val), a variable or an operation (its character sym), or None.
\* parse appends the return value of the nested parse, and parse has no
\* return statement: the symbol of a parenthesised group is None, and no
\* object of type equation ever enters the list.
IntSym(v) == [kind |-> "int", val |-> v, sym |-> ""]
FloatSym(v) == [kind |-> "float", val |-> v, sym |-> ""]
VarSym(c) == [kind |-> "variable", val |-> NoneVal, sym |-> c]
OpSym(c) == [kind |-> "operation", val |-> NoneVal, sym |-> c]
NoneSym == [kind |-> "None", val |-> NoneVal, sym |-> ""]

DigitChars == {"0", "1", "2", "3", "4", "5", "6", "7", "8", "9"}
NumberChars == DigitChars \cup {"."}

DigitVal(c) ==
    CASE c = "0" -> 0 [] c = "1" -> 1 [] c = "2" -> 2 [] c = "3" -> 3
      [] c = "4" -> 4 [] c = "5" -> 5 [] c = "6" -> 6 [] c = "7" -> 7
      [] c = "8" -> 8 [] c = "9" -> 9

DigitChar(i) ==
    CASE i = 0 -> "0" [] i = 1 -> "1" [] i = 2 -> "2" [] i = 3 -> "3"
      [] i = 4 -> "4" [] i = 5 -> "5" [] i = 6 -> "6" [] i = 7 -> "7"
      [] i = 8 -> "8" [] i = 9 -> "9"

CountOf(c, s) == Cardinality({i \in 1..Len(s) : s[i] = c})
Digits(s) == SelectSeq(s, LAMBDA c : c \in DigitChars)

\* The integer written by a sequence of digits.
RECURSIVE DigitsVal(_)
DigitsVal(s) ==
    IF s = <<>> THEN 0
    ELSE LET front == DigitsVal(SubSeq(s, 1, Len(s) - 1))
         IN  IF front > Limit THEN front ELSE 10 * front + DigitVal(s[Len(s)])

RECURSIVE Pow10(_)
Pow10(k) == IF k = 0 THEN 1 ELSE 10 * Pow10(k - 1)

\* Digits after the "." of a numeral with one ".".
FractionLen(s) ==
    LET dot == CHOOSE i \in 1..Len(s) : s[i] = "."
    IN  Len(s) - dot

\* int(number) and float(number) of the end of a literal in parse: number
\* is an optional leading "-" followed by characters of "0123456789.".
\* Raises ValueError unless there is a digit and at most one ".".
literal(number) ==
    LET neg == number[1] = "-"
        ds == Digits(number)
        mag == DigitsVal(ds)
        sgn == IF neg THEN -1 ELSE 1
    IN  IF "." \in Range(number)
        THEN IF CountOf(".", number) # 1 \/ ds = <<>> THEN Raise("ValueError")
             ELSE IF mag > Limit \/ FractionLen(number) > 4 THEN Ret(Opaque)
             ELSE Ret(Num(sgn * mag, Pow10(FractionLen(number)), TRUE))
        ELSE IF ds = <<>> THEN Raise("ValueError")
             ELSE Ret(Num(sgn * mag, 1, FALSE))

\* The symbol parse appends for a converted literal.
literalSym(number) ==
    IF "." \in Range(number) THEN FloatSym(literal(number).val)
    ELSE IntSym(literal(number).val)

\* -------------------------------------------------------------- parse ----
\* The state of one call of parse: self.symbols, the locals number,
\* subequation and subequationString, and the exception that ended the call
\* ("" while none has).
parse_begin ==
    [symbols |-> <<>>, number |-> <<>>, subequation |-> 0,
     subequationString |-> <<>>, raised |-> ""]

parse_raise(p, e) == [p EXCEPT !.raised = e]

\* Lines 106-116: a character outside "0123456789." ends the literal being
\* read, which is converted and appended; a character inside extends it.
parse_number(p, char) ==
    IF char \notin NumberChars
    THEN IF p.number # <<>>
         THEN IF literal(p.number).raised # ""
              THEN parse_raise(p, literal(p.number).raised)
              ELSE [p EXCEPT !.symbols = Append(@, literalSym(p.number)),
                             !.number = <<>>]
         ELSE p
    ELSE [p EXCEPT !.number = Append(@, char)]

\* parse_symbol with ")" outside parentheses skipped like a space.
parse_symbol_lenient(p, char, allowed) ==
    IF char \in Range(allowed)
    THEN IF operation_init_raises(char, allowedOperations)
         THEN parse_raise(p, "ValueError")
         ELSE [p EXCEPT !.symbols = Append(@, OpSym(char))]
    ELSE IF char \in NumberChars THEN p
    ELSE IF char = "(" THEN [p EXCEPT !.subequation = 1]
    ELSE IF char = ")" \/ char = " " THEN p
    ELSE [p EXCEPT !.symbols = Append(@, VarSym(char))]

\* Lines 118-137: the character as an operator, a parenthesis, a space or
\* a variable name.
parse_symbol(p, char, allowed) ==
    IF char \in Range(allowed)
    THEN IF operation_init_raises(char, allowedOperations)
         THEN parse_raise(p, "ValueError")
         ELSE [p EXCEPT !.symbols = Append(@, OpSym(char))]
    ELSE IF char \in NumberChars THEN p
    ELSE IF char = "(" THEN [p EXCEPT !.subequation = 1]
    ELSE IF char = ")" THEN parse_raise(p, "ValueError")
    ELSE IF char = " " THEN p
    ELSE [p EXCEPT !.symbols = Append(@, VarSym(char))]

\* Lines 138-142: the literal still being read at the end of the text.
parse_end(p) ==
    IF p.number # <<>>
    THEN IF literal(p.number).raised # ""
         THEN parse_raise(p, literal(p.number).raised)
         ELSE [p EXCEPT !.symbols = Append(@, literalSym(p.number)),
                        !.number = <<>>]
    ELSE p

RECURSIVE parse(_, _)

\* Lines 85-97: inside parentheses.  The closing parenthesis that balances
\* the group constructs equation(allowed=self.allowed), parses the text of
\* the group with it, and appends what that parse returns, which is None.
parse_subequation(p, char, allowed) ==
    LET sub == IF char = "(" THEN p.subequation + 1
               ELSE IF char = ")" THEN p.subequation - 1
               ELSE p.subequation
    IN  IF sub > 0
        THEN [p EXCEPT !.subequation = sub,
                       !.subequationString = Append(@, char)]
        ELSE IF \E i \in 1..Len(allowed) :
                    operation_init_raises(allowed[i], allowedOperations)
             THEN parse_raise([p EXCEPT !.subequation = sub], "ValueError")
        ELSE IF parse(p.subequationString, allowed).raised # ""
             THEN parse_raise([p EXCEPT !.subequation = sub],
                              parse(p.subequationString, allowed).raised)
        ELSE [p EXCEPT !.subequation = sub,
                       !.symbols = Append(@, NoneSym),
                       !.subequationString = <<>>]

\* parse_char with the test of line 100 reduced to char == "-": every "-"
\* outside parentheses starts a literal.
parse_char_every_minus(p, char, allowed) ==
    IF p.subequation > 0 THEN parse_subequation(p, char, allowed)
    ELSE IF char = "-" THEN [p EXCEPT !.number = <<"-">>]
    ELSE LET q == parse_number(p, char)
         IN  IF q.raised # "" THEN q ELSE parse_symbol(q, char, allowed)

\* parse_char without the test of line 100: a "-" outside parentheses is
\* handled like any other character and never starts a literal.
parse_char_minus_operator(p, char, allowed) ==
    IF p.subequation > 0 THEN parse_subequation(p, char, allowed)
    ELSE LET q == parse_number(p, char)
         IN  IF q.raised # "" THEN q ELSE parse_symbol(q, char, allowed)

\* One iteration of the loop of parse (lines 81-137) on the character char.
parse_char(p, char, allowed) ==
    IF p.subequation > 0 THEN parse_subequation(p, char, allowed)
    ELSE IF char = "-" /\ p.number = <<>> THEN [p EXCEPT !.number = <<"-">>]
    ELSE LET q == parse_number(p, char)
         IN  IF q.raised # "" THEN q ELSE parse_symbol(q, char, allowed)

\* The loop of parse over the text symbolStr from the state p.
RECURSIVE parse_loop(_, _, _)
parse_loop(p, symbolStr, allowed) ==
    IF p.raised # "" \/ symbolStr = <<>> THEN p
    ELSE parse_loop(parse_char(p, symbolStr[1], allowed), Tail(symbolStr),
                    allowed)

\* equation.parse as a whole, as the nested call of line 94 runs it.
parse(symbolStr, allowed) ==
    LET p == parse_loop(parse_begin, symbolStr, allowed)
    IN  IF p.raised # "" THEN p ELSE parse_end(p)

\* ---------------------------------------------------------- calculate ----
\* kwargs is a set of <<name, value>> pairs, one per keyword argument.
HasKey(kwargs, name) == \E b \in kwargs : b[1] = name
Lookup(kwargs, name) == (CHOOSE b \in kwargs : b[1] = name)[2]

\* The locals of the first loop of calculate (lines 151-170).
separate_begin ==
    [values |-> <<>>, operations |-> <<>>, notOperator |-> FALSE, raised |-> ""]

\* separate_value with a symbol that is None appended to values as it is.
separate_value_none(c, symbol, kwargs) ==
    IF symbol.kind \in {"int", "float", "None"}
    THEN [c EXCEPT !.values = Append(@, symbol.val)]
    ELSE IF symbol.kind = "variable"
    THEN IF HasKey(kwargs, symbol.sym)
         THEN [c EXCEPT !.values = Append(@, Lookup(kwargs, symbol.sym))]
         ELSE [c EXCEPT !.raised = "KeyError"]
    ELSE c

\* Lines 156-161: the value of a symbol is appended to values.  A symbol
\* that is None is none of the four types and appends nothing.
separate_value(c, symbol, kwargs) ==
    IF symbol.kind \in {"int", "float"}
    THEN [c EXCEPT !.values = Append(@, symbol.val)]
    ELSE IF symbol.kind = "variable"
    THEN IF HasKey(kwargs, symbol.sym)
         THEN [c EXCEPT !.values = Append(@, Lookup(kwargs, symbol.sym))]
         ELSE [c EXCEPT !.raised = "KeyError"]
    ELSE c

\* Lines 163-170: operation("*") is put between two symbols that are not
\* operations; an operation is appended to operations.
separate_operation(c, symbol) ==
    LET d == IF c.notOperator /\ symbol.kind # "operation"
             THEN [c EXCEPT !.operations = Append(@, "*")]
             ELSE c
    IN  IF symbol.kind = "operation"
        THEN [d EXCEPT !.operations = Append(@, symbol.sym),
                       !.notOperator = FALSE]
        ELSE [d EXCEPT !.notOperator = TRUE]

\* The first loop of calculate over the symbols from the locals c.
RECURSIVE separate(_, _, _)
separate(c, symbols, kwargs) ==
    IF c.raised # "" \/ symbols = <<>> THEN c
    ELSE LET v == separate_value(c, symbols[1], kwargs)
         IN  IF v.raised # "" THEN v
             ELSE separate(separate_operation(v, symbols[1]), Tail(symbols),
                           kwargs)

\* collapse_op with the two operands handed to the operator in the wrong
\* order.
collapse_op_swapped(c, op, operatorType) ==
    IF op = operatorType
    THEN LET r == operation_calculate(op, c.values[c.opIndex + 2],
                                      c.values[c.opIndex + 1])
         IN  IF r.raised # "" THEN [c EXCEPT !.raised = r.raised]
             ELSE [c EXCEPT !.values =
                       SubSeq(@, 1, c.opIndex) \o <<r.val>>
                       \o SubSeq(@, c.opIndex + 3, Len(@))]
    ELSE [c EXCEPT !.opIndex = @ + 1]

\* Lines 181-187: one iteration of the inner loop, on the operation op, for
\* the class operatorType.  opIndex counts from 0 as in the source.
collapse_op(c, op, operatorType) ==
    IF op = operatorType
    THEN LET r == operation_calculate(op, c.values[c.opIndex + 1],
                                      c.values[c.opIndex + 2])
         IN  IF r.raised # "" THEN [c EXCEPT !.raised = r.raised]
             ELSE [c EXCEPT !.values =
                       SubSeq(@, 1, c.opIndex) \o <<r.val>>
                       \o SubSeq(@, c.opIndex + 3, Len(@))]
    ELSE [c EXCEPT !.opIndex = @ + 1]

\* The inner loop (line 180) over the list operations.
RECURSIVE collapse_class(_, _, _)
collapse_class(c, operations, operatorType) ==
    IF c.raised # "" \/ operations = <<>> THEN c
    ELSE collapse_class(collapse_op(c, operations[1], operatorType),
                        Tail(operations), operatorType)

\* Lines 189-190: the operations of finishedOps, which are the operations
\* of the class, are removed from operations.  list.remove compares by
\* identity and each operation of the list is an object of its own.
remove_finished(operations, operatorType) ==
    SelectSeq(operations, LAMBDA op : op # operatorType)

\* The outer loop (lines 177-190) over the classes of order; c holds values,
\* operations and the exception raised.
RECURSIVE collapse(_, _)
collapse(c, order) ==
    IF c.raised # "" \/ order = <<>> THEN c
    ELSE LET k == collapse_class([values |-> c.values, opIndex |-> 0,
                                  raised |-> ""],
                                 c.operations, order[1])
         IN  collapse([values |-> k.values,
                       operations |-> remove_finished(c.operations, order[1]),
                       raised |-> k.raised],
                      Tail(order))

\* calculate with the list operations an alias of self.symbols, so that the
\* operations removed after each class are removed from the equation.
calculate_aliased(symbols, order, kwargs) ==
    LET s == separate(separate_begin, symbols, kwargs)
        left == SelectSeq(symbols, LAMBDA sy : sy.kind # "operation"
                                               \/ sy.sym \notin Range(order))
    IN  IF s.raised # ""
        THEN [raised |-> s.raised, val |-> NoneVal, symbols |-> symbols]
        ELSE IF Len(s.values) # Len(s.operations) + 1
        THEN [raised |-> "ValueError", val |-> NoneVal, symbols |-> symbols]
        ELSE LET c == collapse([values |-> s.values,
                                operations |-> s.operations, raised |-> ""],
                               order)
             IN  IF c.raised # ""
                 THEN [raised |-> c.raised, val |-> NoneVal,
                       symbols |-> symbols]
                 ELSE [raised |-> "", val |-> c.values[1], symbols |-> left]

\* equation.calculate on an object with the fields symbols and order: what
\* the call raises or returns, and self.symbols after the call.  The two
\* loops work on the local lists values and operations.
calculate(symbols, order, kwargs) ==
    LET s == separate(separate_begin, symbols, kwargs)
    IN  IF s.raised # ""
        THEN [raised |-> s.raised, val |-> NoneVal, symbols |-> symbols]
        ELSE IF Len(s.values) # Len(s.operations) + 1
        THEN [raised |-> "ValueError", val |-> NoneVal, symbols |-> symbols]
        ELSE LET c == collapse([values |-> s.values,
                                operations |-> s.operations, raised |-> ""],
                               order)
             IN  IF c.raised # ""
                 THEN [raised |-> c.raised, val |-> NoneVal,
                       symbols |-> symbols]
                 ELSE [raised |-> "", val |-> c.values[1], symbols |-> symbols]

\* ------------------------------------------------------------ __str__ ----
\* str of a non-negative int: its decimal digits.
RECURSIVE NatStr(_)
NatStr(i) ==
    IF i < 10 THEN <<DigitChar(i)>>
    ELSE Append(NatStr(i \div 10), DigitChar(i % 10))

\* The digits after the "." of r/d, for 0 <= r < d and d dividing a power
\* of ten.
RECURSIVE FractionStr(_, _)
FractionStr(r, d) ==
    IF r = 0 THEN <<>>
    ELSE <<DigitChar((10 * r) \div d)>> \o FractionStr((10 * r) % d, d)

\* str of an element of symbols: of an int, of a float (its shortest
\* decimal form), of None, and symbol.symbol for variable.__str__ and
\* operation.__str__.  A number the model does not track is written "?".
symbol_str(symbol) ==
    LET v == symbol.val
        sign == IF v.n < 0 THEN <<"-">> ELSE <<>>
    IN  IF symbol.kind \in {"variable", "operation"} THEN <<symbol.sym>>
        ELSE IF symbol.kind = "None" THEN <<"N", "o", "n", "e">>
        ELSE IF v.k # "num" THEN <<"?">>
        ELSE IF symbol.kind = "int" THEN sign \o NatStr(Abs(v.n))
        ELSE sign \o NatStr(Abs(v.n) \div v.d) \o <<".">>
             \o (IF Abs(v.n) % v.d = 0 THEN <<"0">>
                 ELSE FractionStr(Abs(v.n) % v.d, v.d))

RECURSIVE join_str(_)
join_str(syms) ==
    IF syms = <<>> THEN <<>> ELSE symbol_str(syms[1]) \o join_str(Tail(syms))

\* equation.__str__: the texts of the symbols between parentheses.
equation_str(syms) == <<"(">> \o join_str(syms) \o <<")">>

\* ------------------------------------------------------ the program ----
VARIABLES
    pc,                 \* "new", "idle", "parsing", or "raised" when __init__ raised
    allowed,            \* self.allowed
    operator,           \* the class passed to __init__ as operator
    order,              \* self.order, the symbol of each of its operations
    symbols,            \* self.symbols
    number,             \* the locals of the running call of parse
    subequation,
    subequationString,
    text,               \* the characters of symbolStr that parse has read
    parseRet,           \* the last call of parse: "", "running", "None" or what it raised
    calcRet,            \* what the last call of calculate raised or returned
    kwargs,             \* the keyword arguments of the last call of calculate
    calls               \* the calls of calculate since the last parse:
                        \* 0, 1, or 2 for two and more

vars == <<pc, allowed, operator, order, symbols, number, subequation,
          subequationString, text, parseRet, calcRet, kwargs, calls>>

\* The characters of the texts that are enumerated in full.
CoreChars == {"2", "3", "*", "/", "+", "-"}
Chars == CoreChars \cup {"^", "(", ")", "x", " "}

\* Texts that are parsed as well, whatever their length.
Examples ==
    {<<"2", "+", "3", "*", "4">>,
     <<"2", "*", "3", "+", "4">>,
     <<"2", "+", "3", "^", "2">>,
     <<"(", "2", "+", "3", ")", "*", "4">>,
     <<"(", "(", "1", "+", "1", ")", ")">>,
     <<"2", "(", "3", "+", "4", ")">>,
     <<"-", "5", "+", "3">>,
     <<"3", "-", "-", "5">>,
     <<"1", "+">>,
     <<"x", "^", "2", "+", "1">>,
     <<")", "1", "+", "1">>,
     <<"1", ")">>,
     <<"(", "1", ")", ")">>,
     <<"x", "-", "5">>,
     <<"x", "-", "y">>,
     <<"3", " ", "-", " ", "5">>,
     <<"2", " ", "3">>,
     <<"8", "/", "2", "*", "3">>,
     <<"1", "-", "2", "+", "3">>,
     <<"2", ".", "5", "*", "2">>,
     <<"1", ".", ".", "2">>,
     <<"(", "-", "-", ")">>,
     <<"2", "/", "0">>,
     <<"x", "-", ".", "5">>,
     <<"3", ".", "-", "5">>}

\* The configurations an equation is constructed with: the defaults, a table
\* in another order, and an alphabet with a symbol outside the default five
\* together with a child class of operation that overrides extendCalculate.
Configs ==
    {[allowed |-> allowedOperations, operator |-> "operation"],
     [allowed |-> <<"+", "*">>, operator |-> "operation"],
     [allowed |-> <<"%", "+">>, operator |-> "child"]}

\* The keyword arguments calculate is called with.
Bindings == {{<<"x", IntVal(3)>>}, {<<"x", IntVal(0)>>}, {}}

NoCall == [raised |-> "none", val |-> NoneVal]

IsPrefix(s, t) == Len(s) <= Len(t) /\ SubSeq(t, 1, Len(s)) = s

\* The texts fed to parse: every text over Chars up to MaxLen, every text
\* over CoreChars up to MaxCoreLen for the default table, and the Examples.
CanFeed(char) ==
    \/ Len(text) < MaxLen /\ char \in Chars
    \/ /\ Len(text) < MaxCoreLen
       /\ allowed = allowedOperations
       /\ Range(text) \cup {char} \subseteq CoreChars
    \/ \E e \in Examples : IsPrefix(Append(text, char), e)

FeedChars == Chars \cup UNION {Range(e) : e \in Examples}

Init ==
    /\ pc = "new"
    /\ allowed = <<>>
    /\ operator = ""
    /\ order = <<>>
    /\ symbols = <<>>
    /\ number = <<>>
    /\ subequation = 0
    /\ subequationString = <<>>
    /\ text = <<>>
    /\ parseRet = ""
    /\ calcRet = NoCall
    /\ kwargs = {}
    /\ calls = 0

\* equation.__init__(allowed=cfg.allowed, operator=cfg.operator), lines
\* 58-65 with symbolStr None.  Both classes run operation.__init__ with its
\* default alphabet on every symbol of allowed.
equation_init(cfg) ==
    /\ pc = "new"
    /\ allowed' = cfg.allowed
    /\ operator' = cfg.operator
    /\ IF \E i \in 1..Len(cfg.allowed) :
              operation_init_raises(cfg.allowed[i], allowedOperations)
       THEN pc' = "raised" /\ order' = <<>>
       ELSE pc' = "idle" /\ order' = cfg.allowed
    /\ UNCHANGED <<symbols, number, subequation, subequationString, text,
                   parseRet, calcRet, kwargs, calls>>

\* The locals of the call of parse that is running.
Locals ==
    [symbols |-> symbols, number |-> number, subequation |-> subequation,
     subequationString |-> subequationString, raised |-> ""]

\* The call of parse goes on in the state p, or ends when p.raised is set.
ParseTo(p) ==
    /\ symbols' = p.symbols
    /\ IF p.raised = ""
       THEN /\ pc' = "parsing"
            /\ number' = p.number
            /\ subequation' = p.subequation
            /\ subequationString' = p.subequationString
            /\ parseRet' = "running"
       ELSE /\ pc' = "idle"
            /\ number' = <<>>
            /\ subequation' = 0
            /\ subequationString' = <<>>
            /\ parseRet' = p.raised

\* equation.parse is called: lines 77-80.
ParseBegin ==
    /\ pc = "idle"
    /\ ParseTo(parse_begin)
    /\ text' = <<>>
    /\ calcRet' = NoCall
    /\ kwargs' = {}
    /\ calls' = 0
    /\ UNCHANGED <<allowed, operator, order>>

\* One iteration of the loop of parse on the next character of the text.
ParseChar(char) ==
    /\ pc = "parsing"
    /\ CanFeed(char)
    /\ ParseTo(parse_char(Locals, char, allowed))
    /\ text' = Append(text, char)
    /\ UNCHANGED <<allowed, operator, order, calcRet, kwargs, calls>>

\* The text ends: lines 138-142, and parse returns None.
ParseEnd ==
    /\ pc = "parsing"
    /\ LET p == parse_end(Locals)
       IN  /\ symbols' = p.symbols
           /\ parseRet' = IF p.raised = "" THEN "None" ELSE p.raised
    /\ pc' = "idle"
    /\ number' = <<>>
    /\ subequation' = 0
    /\ subequationString' = <<>>
    /\ UNCHANGED <<allowed, operator, order, text, calcRet, kwargs, calls>>

\* equation.calculate(**kw) is called on the object as it is.
Calculate(kw) ==
    /\ pc = "idle"
    /\ LET r == calculate(symbols, order, kw)
       IN  /\ calcRet' = [raised |-> r.raised, val |-> r.val]
           /\ symbols' = r.symbols
    /\ kwargs' = kw
    /\ calls' = IF calls = 0 THEN 1 ELSE 2
    /\ UNCHANGED <<pc, allowed, operator, order, number, subequation,
                   subequationString, text, parseRet>>

Next ==
    \/ \E cfg \in Configs : equation_init(cfg)
    \/ ParseBegin
    \/ \E char \in FeedChars : ParseChar(char)
    \/ ParseEnd
    \/ \E kw \in Bindings : Calculate(kw)

Spec == Init /\ [][Next]_vars

\* --------------------------------------------------------- properties ----
Returned == parseRet = "None"
Called == calls > 0
Default == order = allowedOperations
X(i) == {<<"x", IntVal(i)>>}

\* The last call of calculate returned the number n/d.
RetIs(n, d) ==
    calcRet.raised = "" /\ calcRet.val.k = "num"
    /\ calcRet.val.n = n /\ calcRet.val.d = d

\* The last parse read all of `t` and returned, and calculate was called.
Evaluated(t) == text = t /\ Returned /\ Called

\* The values and operations calculate separates the symbols into.
Separated == separate(separate_begin, symbols, kwargs)
Proceeds ==
    Separated.raised = ""
    /\ Len(Separated.values) = Len(Separated.operations) + 1

Max(S) == CHOOSE i \in S : \A j \in S : j <= i

\* Evaluation of values joined by operators as a tree.  levels is a
\* sequence of sets of operator symbols, tightest binding first; the
\* operators of one level are applied left to right.  An operator of no
\* level binds loosest and yields its left operand.
RECURSIVE TreeEval(_, _, _, _)
TreeEval(vals, ops, levels, k) ==
    LET splits == {i \in 1..Len(ops) :
                      IF k > Len(levels)
                      THEN \A j \in 1..Len(levels) : ops[i] \notin levels[j]
                      ELSE ops[i] \in levels[k]}
    IN  IF ops = <<>> \/ k = 0 THEN Ret(vals[1])
        ELSE IF splits = {} THEN TreeEval(vals, ops, levels, k - 1)
        ELSE LET i == Max(splits)
                 l == TreeEval(SubSeq(vals, 1, i), SubSeq(ops, 1, i - 1),
                               levels, k)
                 r == TreeEval(SubSeq(vals, i + 1, Len(vals)),
                               SubSeq(ops, i + 1, Len(ops)), levels, k - 1)
             IN  IF l.raised # "" THEN l
                 ELSE IF r.raised # "" THEN r
                 ELSE IF k > Len(levels) THEN l
                 ELSE operation_calculate(ops[i], l.val, r.val)

\* One level per operator of the table, in the table's order.
TableLevels == [i \in 1..Len(order) |-> {order[i]}]

\* C1: calculate collapses the operators class by class in the order of the
\* Operator Table, each class left to right with the operator applied to
\* (left, right): whenever the symbols pass the count check, the call
\* returns or raises what the evaluation binding the classes in table order
\* does; "2+3*4" is 14, "2*3+4" is 10, "2+3^2" is 11, and in "8/2*3" the
\* multiplication is collapsed before the division, giving 8/6.
C1_ClassByClass ==
    /\ (Called /\ Proceeds) =>
           calcRet = TreeEval(Separated.values, Separated.operations,
                              TableLevels, Len(order) + 1)
    /\ (Default /\ Evaluated(<<"2", "+", "3", "*", "4">>)) => RetIs(14, 1)
    /\ (Default /\ Evaluated(<<"2", "*", "3", "+", "4">>)) => RetIs(10, 1)
    /\ (Default /\ Evaluated(<<"2", "+", "3", "^", "2">>)) => RetIs(11, 1)
    /\ (Default /\ Evaluated(<<"8", "/", "2", "*", "3">>)) => RetIs(4, 3)

\* A multiplication standing after a division was collapsed first.
C1_Witness ==
    /\ Default /\ Evaluated(<<"3", "/", "2", "*", "3">>) /\ RetIs(1, 2)

\* C2: a balanced parenthesised group is appended as a nested Expression
\* symbol and calculate uses the value of the group in its place:
\* "(2+3)*4" is 20, "((1+1))" is 2, and "(x)" is the value bound to x.
C2_NestedExpression ==
    /\ \A i \in 1..Len(symbols) : symbols[i].kind # "None"
    /\ (Default /\ Evaluated(<<"(", "2", "+", "3", ")", "*", "4">>))
           => RetIs(20, 1)
    /\ (Default /\ Evaluated(<<"(", "(", "1", "+", "1", ")", ")">>))
           => RetIs(2, 1)
    /\ (Evaluated(<<"(", "x", ")">>) /\ kwargs = X(3)) => RetIs(3, 1)

\* The symbols with an explicit "*" written between every two neighbours
\* that are not operations.
RECURSIVE WithStars(_)
WithStars(syms) ==
    IF Len(syms) < 2 THEN syms
    ELSE IF syms[1].kind # "operation" /\ syms[2].kind # "operation"
    THEN <<syms[1], OpSym("*")>> \o WithStars(Tail(syms))
    ELSE <<syms[1]>> \o WithStars(Tail(syms))

Outcome(r) == [raised |-> r.raised, val |-> r.val]

\* C3: two value-bearing symbols (a literal, a variable or a parenthesised
\* group) with no operator between them are multiplied, as if "*" had been
\* written between them: "2x" is 2 times the value of x, "2(3+4)" is 14.
C3_ImplicitMultiplication ==
    /\ Called =>
           calcRet = Outcome(calculate(WithStars(symbols), order, kwargs))
    /\ (Default /\ Evaluated(<<"2", "x">>) /\ kwargs = X(3)) => RetIs(6, 1)
    /\ (Default /\ Evaluated(<<"2", "(", "3", "+", "4", ")">>))
           => RetIs(14, 1)

\* A step of parse on a "-" outside parentheses.
MinusStep == pc = "parsing" /\ subequation = 0 /\ text' = Append(text, "-")

\* The step appended the literal that was being read, then the operator "-".
LiteralThenMinus ==
    /\ Len(symbols') = Len(symbols) + 2
    /\ SubSeq(symbols', 1, Len(symbols)) = symbols
    /\ symbols'[Len(symbols) + 1].kind \in {"int", "float"}
    /\ symbols'[Len(symbols) + 2] = OpSym("-")
    /\ number' = <<>>
    /\ pc' = "parsing"

\* The text of a literal that int or float accepts: it has a digit and at
\* most one ".".
Convertible(num) ==
    (\E i \in 1..Len(num) : num[i] \in DigitChars) /\ CountOf(".", num) <= 1

C4_Examples ==
    /\ (Default /\ text = <<"-", "5", "+", "3">> /\ Returned) =>
           /\ symbols = <<IntSym(IntVal(-5)), OpSym("+"), IntSym(IntVal(3))>>
           /\ Called => RetIs(-2, 1)
    /\ (Default /\ text = <<"3", "-", "-", "5">> /\ Returned) =>
           /\ symbols = <<IntSym(IntVal(3)), OpSym("-"), IntSym(IntVal(-5))>>
           /\ Called => RetIs(8, 1)

\* C4 as claimed: outside parentheses a "-" met while no literal is being
\* read starts a negative literal and appends nothing, and a "-" met while
\* a literal is being read appends that literal and then the operator "-";
\* "-5+3" is [-5, +, 3] and -2, "3--5" is [3, -, -5] and 8.
C4_MinusAsClaimed ==
    /\ []C4_Examples
    /\ [][MinusStep =>
            IF number = <<>>
            THEN number' = <<"-">> /\ symbols' = symbols /\ pc' = "parsing"
            ELSE LiteralThenMinus]_vars

\* C4 as amended: with "-" in the alphabet, a "-" met while a literal is
\* being read appends the literal and the operator "-" when the text of the
\* literal converts to a number, and otherwise makes parse raise ValueError
\* with nothing appended; a "-" met while no literal is being read starts a
\* negative literal.  The two examples stand.
C4_MinusAmended ==
    /\ []C4_Examples
    /\ [][MinusStep =>
            IF number = <<>>
            THEN number' = <<"-">> /\ symbols' = symbols /\ pc' = "parsing"
            ELSE IF ~Convertible(number)
            THEN pc' = "idle" /\ parseRet' = "ValueError" /\ symbols' = symbols
            ELSE "-" \in Range(allowed) => LiteralThenMinus]_vars

\* "3--5" was parsed to [3, -, -5] and evaluated to 8.
C4_Witness ==
    /\ Default /\ Evaluated(<<"3", "-", "-", "5">>) /\ RetIs(8, 1)
    /\ symbols = <<IntSym(IntVal(3)), OpSym("-"), IntSym(IntVal(-5))>>

ValueBearing(sy) == sy.kind \in {"int", "float", "variable"}
IsOperation(sy) == sy.kind = "operation"

\* The values the symbols hold, and their operators together with the
\* multiplications put between neighbours that are not operators.
CountValues == Cardinality({i \in 1..Len(symbols) : ValueBearing(symbols[i])})
CountOperators ==
    Cardinality({i \in 1..Len(symbols) : IsOperation(symbols[i])})
    + Cardinality({i \in 2..Len(symbols) :
                      ~IsOperation(symbols[i - 1]) /\ ~IsOperation(symbols[i])})

\* The symbols begin and end with a value and no two operators are adjacent.
Alternates ==
    /\ symbols # <<>>
    /\ ValueBearing(symbols[1]) /\ ValueBearing(symbols[Len(symbols)])
    /\ \A i \in 1..Len(symbols) : symbols[i].kind # "None"
    /\ \A i \in 2..Len(symbols) :
           ~(IsOperation(symbols[i - 1]) /\ IsOperation(symbols[i]))

\* calculate raised before it applied an operator.
FailedEarly == calcRet.raised \in {"ValueError", "KeyError"}

\* C5: calculate fails, before applying any operator, whenever the values
\* are not one more than the operators (implicit multiplications counted),
\* so it proceeds only on symbols that begin and end with a value and have
\* no two adjacent operators; the empty Expression, symbols starting with
\* an operator, two adjacent operators and the parse of "1+" all fail.
C5_Alternation ==
    Called =>
        /\ CountValues # CountOperators + 1 => FailedEarly
        /\ ~FailedEarly => Alternates
        /\ symbols = <<>> => FailedEarly
        /\ (symbols # <<>> /\ IsOperation(symbols[1])) => FailedEarly
        /\ (\E i \in 2..Len(symbols) :
               IsOperation(symbols[i - 1]) /\ IsOperation(symbols[i]))
               => FailedEarly
        /\ (text = <<"1", "+">> /\ Returned) => calcRet.raised = "ValueError"

\* calculate failed on symbols with two adjacent operators.
C5_Witness ==
    /\ Called /\ calcRet.raised = "ValueError" /\ Len(symbols) >= 2
    /\ \E i \in 2..Len(symbols) :
           IsOperation(symbols[i - 1]) /\ IsOperation(symbols[i])

\* A step that is a call of calculate.
CalculateStep == pc = "idle" /\ pc' = "idle" /\ calls' > 0

\* C6: calculate does not modify the Expression: across a call the symbols
\* and the Operator Table stay, and after any calls the symbols are what
\* the last parse of the text left and the result is what that parse gives
\* on the bindings of the call alone; "x^2+1" is 10 at x=3 and 1 at x=0.
C6_Frame ==
    /\ [][CalculateStep =>
            symbols' = symbols /\ order' = order /\ allowed' = allowed]_vars
    /\ [](Called =>
            /\ LET fresh == parse(text, allowed).symbols
               IN  /\ symbols = fresh
                   /\ calcRet = Outcome(calculate(fresh, order, kwargs))
            /\ (Default /\ Evaluated(<<"x", "^", "2", "+", "1">>)) =>
                   /\ kwargs = X(3) => RetIs(10, 1)
                   /\ kwargs = X(0) => RetIs(1, 1))

\* "x^2+1" evaluated at x=0 in a call that was not the first on that parse.
C6_Witness ==
    /\ Default /\ Evaluated(<<"x", "^", "2", "+", "1">>)
    /\ calls = 2 /\ kwargs = X(0) /\ RetIs(1, 1)

\* C7: the operator alphabet is configurable: an equation constructed with
\* a custom alphabet and a custom operation class is not rejected, its
\* table holds every symbol of the alphabet, and parse accepts them.
C7_CustomAlphabet ==
    /\ pc # "raised"
    /\ pc # "new" => order = allowed

\* The symbols are non-negative int literals, variables and operators.
Plain ==
    \A i \in 1..Len(symbols) :
        \/ symbols[i].kind \in {"variable", "operation"}
        \/ /\ symbols[i].kind = "int"
           /\ symbols[i].val.k = "num"
           /\ symbols[i].val.n >= 0

\* C8: an Expression of non-negative int literals, variables and operators,
\* rendered by str and parsed again, evaluates as the original does on the
\* same bindings.
C8_RoundTrip ==
    (pc = "idle" /\ Returned /\ Plain) =>
        \A kw \in Bindings :
            calculate(symbols, order, kw).raised = "" =>
                Outcome(calculate(parse(equation_str(symbols), allowed).symbols,
                                  order, kw))
                = Outcome(calculate(symbols, order, kw))

\* The text holds a ")" with as many "(" as ")" before it.
BareClose(t) ==
    \E i \in 1..Len(t) :
        /\ t[i] = ")"
        /\ CountOf("(", SubSeq(t, 1, i - 1)) = CountOf(")", SubSeq(t, 1, i - 1))

\* C9: parse raises, and does not return, once it has met a ")" with no
\* unmatched "(" before it, whatever precedes it: ")1+1", "1)", "(1))".
C9_BareClose ==
    /\ BareClose(text) => pc = "idle" /\ parseRet = "ValueError"
    /\ \A t \in {<<")", "1", "+", "1">>, <<"1", ")">>, <<"(", "1", ")", ")">>} :
           (pc = "idle" /\ IsPrefix(text, t) /\ BareClose(text))
               => parseRet = "ValueError"

\* parse raised on the second ")" of "(1))".
C9_Witness ==
    text = <<"(", "1", ")", ")">> /\ parseRet = "ValueError" /\ pc = "idle"

\* Standard convention: powers, then * and / together left to right, then
\* + and - together left to right.
StandardLevels == <<{"^"}, {"*", "/"}, {"+", "-"}>>

Standard ==
    TreeEval(Separated.values, Separated.operations, StandardLevels, 3)

\* No "*" stands after a "/" of the same product, and no "+" after a "-".
ClassOrderHarmless(ops) ==
    \A i, j \in 1..Len(ops) :
        i < j =>
            /\ (ops[i] = "/" /\ ops[j] = "*") =>
                   \E m \in i..j : ops[m] \in {"+", "-"}
            /\ ~(ops[i] = "-" /\ ops[j] = "+")

ReadsMinus == pc = "parsing" /\ text' = Append(text, "-")
ReadsChar == pc = "parsing" /\ Len(text') = Len(text) + 1

\* The step appended the operator "-" as the last symbol.
MinusOperatorAppended ==
    Len(symbols') > Len(symbols) /\ symbols'[Len(symbols')] = OpSym("-")

\* The step ended parse with the ValueError of the conversion, nothing
\* appended.
ConversionRaised ==
    pc' = "idle" /\ parseRet' = "ValueError" /\ symbols' = symbols

\* A "-" was read last, outside parentheses, where no literal was being read.
MinusStarted == pc = "parsing" /\ subequation = 0 /\ number = <<"-">>

C11_Examples ==
    /\ (Default /\ text = <<"x", "-", "5">> /\ Returned) =>
           /\ symbols = <<VarSym("x"), IntSym(IntVal(-5))>>
           /\ (Called /\ kwargs = X(3)) => RetIs(-15, 1)
           /\ (Called /\ kwargs = X(0)) => RetIs(0, 1)
    /\ (text = <<"x", "-", "y">> /\ pc = "idle") =>
           parseRet = "ValueError" /\ symbols = <<VarSym("x")>>
    /\ (text = <<"3", " ", "-", " ">> /\ pc = "idle") =>
           parseRet = "ValueError" /\ symbols = <<IntSym(IntVal(3))>>
    /\ ~(text = <<"3", " ", "-", " ", "5">>)

\* A "-" becomes the operator only after a character of a literal, and
\* after the start of the text or any other character it starts a literal.
C11_OnlyAfterLiteral ==
    ReadsMinus =>
        /\ MinusOperatorAppended =>
               text # <<>> /\ text[Len(text)] \in DigitChars \cup {".", "-"}
        /\ (text = <<>> \/ text[Len(text)] \notin DigitChars \cup {".", "-"})
               => ~MinusOperatorAppended
        /\ (subequation = 0
            /\ (text = <<>> \/ text[Len(text)] \notin DigitChars \cup {".", "-"}))
               => number' = <<"-">> /\ symbols' = symbols /\ pc' = "parsing"

\* C11 as claimed: parse appends a "-" as the subtraction operator only
\* when the character before it is a digit, "." or a leading "-"; after a
\* variable, a closed group, a space, another operator or the start of the
\* text it starts a literal; "x-5" is [x, -5] and evaluates to x*(-5); and
\* a "-" so started and followed by a non-digit makes parse raise while
\* converting the literal "-" ("x-y", "3 - 5").
C11_MinusAsClaimed ==
    /\ []C11_Examples
    /\ [][C11_OnlyAfterLiteral]_vars
    /\ [][(MinusStarted /\ ReadsChar /\ text'[Len(text')] \notin DigitChars)
              => ConversionRaised]_vars

\* C11 as amended: the same, with the "-" so started making parse raise
\* when it is followed by a character that is neither a digit nor ".";
\* followed by "." it goes on as a literal ("x-.5" is [x, -0.5]).
C11_MinusAmended ==
    /\ []C11_Examples
    /\ [][C11_OnlyAfterLiteral]_vars
    /\ [][(MinusStarted /\ ReadsChar /\ text'[Len(text')] \notin NumberChars)
              => ConversionRaised]_vars
    /\ [][(MinusStarted /\ ReadsChar /\ text'[Len(text')] \in NumberChars)
              => pc' = "parsing" /\ number' = <<"-", text'[Len(text')]>>
                 /\ symbols' = symbols]_vars

\* "x-5" was parsed to [x, -5] and evaluated to -15 at x=3.
C11_Witness ==
    /\ Default /\ Evaluated(<<"x", "-", "5">>) /\ kwargs = X(3)
    /\ symbols = <<VarSym("x"), IntSym(IntVal(-5))>> /\ RetIs(-15, 1)

====
